---- MODULE Spec2Model ----
(***************************************************************************)
(* Model of the post selector of the blog: getPublishedAndSortedPosts and  *)
(* its helper isDateBefore.                                                *)
(*                                                                         *)
(* getPublishedAndSortedPosts is allPosts.filter(keep).sort(compare).      *)
(* Array.prototype.filter allocates a new array; Array.prototype.sort      *)
(* sorts that array in place and returns it.  Arrays therefore live in a   *)
(* heap of references, so that aliasing between the caller's array and the *)
(* returned one is something the model can get wrong.                      *)
(*                                                                         *)
(* The comparator returns 1 or -1 and never 0, so for two posts with the   *)
(* same pubDate it answers -1 in both argument orders: it is not a         *)
(* consistent comparator and ECMAScript leaves the order to the engine.    *)
(* The site is built by Astro on Node, whose engine is V8; the sort is     *)
(* modelled as V8's TimSort (builtins/array-sort.tq) for arrays shorter    *)
(* than its minimum merge size, where the whole array is one run: the      *)
(* initial run is counted (and reversed when descending) and the rest is   *)
(* placed by binary insertion.  Indices are 0-based as in V8; At reads a   *)
(* 0-based index of a TLA+ sequence.                                       *)
(***************************************************************************)
EXTENDS Integers, Sequences, FiniteSets, TLC

VARIABLES
    env,        \* [PROD, showDraftPages]: import.meta.env.PROD and siteMetadata.devMode.showDraftPages
    heap,       \* array reference -> sequence of posts
    allPosts,   \* the reference the caller passes
    result,     \* the reference returned by the first call (0: none)
    result2,    \* the reference returned by the call on the first result (0: none)
    error,      \* the exception a call ended with ("none" when it returned)
    cmp,        \* the last direct isDateBefore evaluation
    pc          \* "start", "done", "threw", "again", "compared"

vars == <<env, heap, allPosts, result, result2, error, cmp, pc>>

\* ------------------------------------------------------------------ bounds
MaxPosts == 3
MaxTime == 2
MaxMs == 8

\* ------------------------------------------------------------------- data
Slugs == {"a", "b"}

\* A pubDate value: a Date holding a time value, an Invalid Date (time value
\* NaN), or undefined (the field is absent).
ValidDates == [tag : {"Date"}, ms : 1..MaxTime]
InvalidDate == [tag |-> "InvalidDate", ms |-> 0]
Undefined == [tag |-> "undefined", ms |-> 0]
AnyDates == ValidDates \cup {InvalidDate, Undefined}
DateInputs == [tag : {"Date"}, ms : 0..MaxMs] \cup {InvalidDate, Undefined}

\* The draft field: a boolean, or undefined when the post does not set it.
Drafts == {"true", "false", "undefined"}

ValidPosts == [slug : Slugs, data : [pubDate : ValidDates, draft : Drafts]]
AnyPosts == [slug : Slugs, data : [pubDate : AnyDates, draft : Drafts]]

\* The JS operator ! on a draft field: true for false and for undefined.
Not(draft) == draft # "true"

\* JS numbers as far as getTime produces them: an integer or NaN.
NaN == [nan |-> TRUE, v |-> 0]
Num(n) == [nan |-> FALSE, v |-> n]

\* Date.prototype.getTime: the time value, NaN for an Invalid Date.
getTime(date) == IF date.tag = "Date" THEN Num(date.ms) ELSE NaN

\* x.getTime() on undefined throws a TypeError.
getTimeThrows(date) == date.tag = "undefined"

\* The JS operator < on numbers: false when either side is NaN.
NumLess(x, y) == ~x.nan /\ ~y.nan /\ x.v < y.v

\* ----------------------------------------------------------- isDateBefore
isDateBeforeLessEq(date1, date2) ==
    LET x == getTime(date1)
        y == getTime(date2)
    IN  ~x.nan /\ ~y.nan /\ x.v <= y.v

isDateBefore(date1, date2) == NumLess(getTime(date1), getTime(date2))

isDateBeforeThrows(date1, date2) == getTimeThrows(date1) \/ getTimeThrows(date2)

\* ----------------------------------------------------------------- filter
keepPostProdKeepsAll(post, e) ==
    IF e.PROD THEN TRUE
    ELSE IF e.showDraftPages THEN TRUE ELSE Not(post.data.draft)

keepPostDevKeepsAll(post, e) ==
    IF e.PROD THEN Not(post.data.draft) ELSE TRUE

keepPostIgnoresFlag(post, e) == Not(post.data.draft)

\* The filter callback.
keepPost(post, e) ==
    IF e.PROD THEN Not(post.data.draft)
    ELSE IF e.showDraftPages THEN TRUE ELSE Not(post.data.draft)

\* Array.prototype.filter on the elements: those the callback keeps, in order.
ArrayFilter(arr, e) == SelectSeq(arr, LAMBDA post : keepPost(post, e))

\* ------------------------------------------------------------- comparator
sortCompareSwapped(post1, post2) ==
    IF isDateBefore(post1.data.pubDate, post2.data.pubDate) THEN -1 ELSE 1

\* The sort callback: 1 when post1 is before post2 in time, else -1.
sortCompare(post1, post2) ==
    IF isDateBefore(post1.data.pubDate, post2.data.pubDate) THEN 1 ELSE -1

sortCompareThrows(post1, post2) ==
    isDateBeforeThrows(post1.data.pubDate, post2.data.pubDate)

\* ------------------------------------------------------ Array.prototype.sort
At(work, i) == work[i + 1]

\* ReverseRange: reverses the elements at [from, to).
ReverseRange(work, from, to) ==
    [k \in 1..Len(work) |->
        IF from < k /\ k <= to THEN work[from + to + 1 - k] ELSE work[k]]

\* The loop of CountAndMakeRun: extends the run while the order keeps its sign.
RECURSIVE CountRunLoop(_, _, _, _, _)
CountRunLoop(work, idx, high, isDescending, runLength) ==
    IF idx >= high THEN [runLength |-> runLength, threw |-> FALSE]
    ELSE IF sortCompareThrows(At(work, idx), At(work, idx - 1))
    THEN [runLength |-> runLength, threw |-> TRUE]
    ELSE LET order == sortCompare(At(work, idx), At(work, idx - 1))
         IN  IF (isDescending /\ order >= 0) \/ (~isDescending /\ order < 0)
             THEN [runLength |-> runLength, threw |-> FALSE]
             ELSE CountRunLoop(work, idx + 1, high, isDescending, runLength + 1)

\* CountAndMakeRun: the length of the run starting at lowArg; a descending
\* run (order < 0 between neighbours) is reversed in place.
CountAndMakeRun(work, lowArg, high) ==
    LET low == lowArg + 1
    IN  IF low = high THEN [work |-> work, runLength |-> 1, threw |-> FALSE]
        ELSE IF sortCompareThrows(At(work, low), At(work, low - 1))
        THEN [work |-> work, runLength |-> 1, threw |-> TRUE]
        ELSE LET isDescending == sortCompare(At(work, low), At(work, low - 1)) < 0
                 run == CountRunLoop(work, low + 1, high, isDescending, 2)
             IN  [work |-> IF isDescending /\ ~run.threw
                           THEN ReverseRange(work, lowArg, lowArg + run.runLength)
                           ELSE work,
                  runLength |-> run.runLength,
                  threw |-> run.threw]

\* The binary search of BinaryInsertionSort: where pivot belongs in [left, right).
RECURSIVE BinarySearch(_, _, _, _)
BinarySearch(work, pivot, left, right) ==
    IF left >= right THEN [left |-> left, threw |-> FALSE]
    ELSE LET mid == left + ((right - left) \div 2)
         IN  IF sortCompareThrows(pivot, At(work, mid))
             THEN [left |-> left, threw |-> TRUE]
             ELSE IF sortCompare(pivot, At(work, mid)) < 0
                  THEN BinarySearch(work, pivot, left, mid)
                  ELSE BinarySearch(work, pivot, mid + 1, right)

InsertAtNoShift(work, left, start, pivot) ==
    [k \in 1..Len(work) |-> IF k - 1 = left THEN pivot ELSE work[k]]

\* The move of BinaryInsertionSort: the elements at [left, start) go one place
\* up and pivot goes to left.
InsertAt(work, left, start, pivot) ==
    [k \in 1..Len(work) |->
        IF k - 1 = left THEN pivot
        ELSE IF left < k - 1 /\ k - 1 <= start THEN work[k - 1]
        ELSE work[k]]

RECURSIVE BinaryInsertionLoop(_, _, _, _)
BinaryInsertionLoop(work, low, start, high) ==
    IF start >= high THEN [work |-> work, threw |-> FALSE]
    ELSE LET pivot == At(work, start)
             pos == BinarySearch(work, pivot, low, start)
         IN  IF pos.threw THEN [work |-> work, threw |-> TRUE]
             ELSE BinaryInsertionLoop(InsertAt(work, pos.left, start, pivot),
                                      low, start + 1, high)

\* BinaryInsertionSort: [low, startArg) is sorted; sorts [low, high).
BinaryInsertionSort(work, low, startArg, high) ==
    BinaryInsertionLoop(work, low,
                        IF low = startArg THEN startArg + 1 ELSE startArg, high)

\* ArrayTimSortImpl for an array that is one run long.  A throwing comparator
\* ends the sort before the work array is copied back.
ArrayTimSort(arr) ==
    LET length == Len(arr)
    IN  IF length < 2 THEN [work |-> arr, threw |-> FALSE]
        ELSE LET run == CountAndMakeRun(arr, 0, length)
             IN  IF run.threw THEN [work |-> arr, threw |-> TRUE]
                 ELSE IF run.runLength < length
                 THEN LET s == BinaryInsertionSort(run.work, 0, run.runLength, length)
                      IN  [work |-> IF s.threw THEN arr ELSE s.work,
                           threw |-> s.threw]
                 ELSE [work |-> run.work, threw |-> FALSE]

\* --------------------------------------------------- the heap and the call
NewRef(h) == CHOOSE r \in 1..(Cardinality(DOMAIN h) + 1) : r \notin DOMAIN h

FilterStepInPlace(h, ref, e) ==
    [heap |-> [h EXCEPT ![ref] = ArrayFilter(h[ref], e)], value |-> ref]

\* allPosts.filter(...): a new array holding the kept posts.
FilterStep(h, ref, e) ==
    [heap |-> h @@ (NewRef(h) :> ArrayFilter(h[ref], e)), value |-> NewRef(h)]

\* (...).sort(...): sorts the array at ref in place and returns ref.
SortStep(h, ref) ==
    LET s == ArrayTimSort(h[ref])
    IN  [heap |-> [h EXCEPT ![ref] = s.work],
         value |-> IF s.threw THEN 0 ELSE ref,
         threw |-> s.threw]

getPublishedAndSortedPosts(h, ref, e) ==
    LET f == FilterStep(h, ref, e)
    IN  SortStep(f.heap, f.value)

\* The sequence a call on arr under e returns (no throw on valid dates).
Selected(arr, e) == ArrayTimSort(ArrayFilter(arr, e)).work

\* ------------------------------------------------------------ the machine
NoCmp == [date1 |-> Undefined, date2 |-> Undefined,
          result |-> FALSE, reverse |-> FALSE, threw |-> FALSE]

InitWith(Posts) ==
    /\ env \in [PROD : BOOLEAN, showDraftPages : BOOLEAN]
    /\ \E n \in 0..MaxPosts : \E arr \in [1..n -> Posts] : heap = (1 :> arr)
    /\ allPosts = 1
    /\ result = 0
    /\ result2 = 0
    /\ error = "none"
    /\ cmp = NoCmp
    /\ pc = "start"

\* The content collection validates pubDate: every post holds a valid Date.
Init == InitWith(ValidPosts)

\* Posts as the selector's type alone allows them at run time.
InitInvalid == InitWith(AnyPosts)

\* The listing calls getPublishedAndSortedPosts(allPosts).
Call ==
    /\ pc = "start"
    /\ \E r \in {getPublishedAndSortedPosts(heap, allPosts, env)} :
           /\ heap' = r.heap
           /\ result' = r.value
           /\ error' = IF r.threw THEN "TypeError" ELSE "none"
           /\ pc' = IF r.threw THEN "threw" ELSE "done"
    /\ UNCHANGED <<env, allPosts, result2, cmp>>

\* The selector applied to its own result under the same environment.
CallAgain ==
    /\ pc = "done"
    /\ \E r \in {getPublishedAndSortedPosts(heap, result, env)} :
           /\ heap' = r.heap
           /\ result2' = r.value
           /\ error' = IF r.threw THEN "TypeError" ELSE "none"
           /\ pc' = IF r.threw THEN "threw" ELSE "again"
    /\ UNCHANGED <<env, allPosts, result, cmp>>

Next == Call \/ CallAgain

Spec == Init /\ [][Next]_vars

SpecInvalid == InitInvalid /\ [][Next]_vars

\* ------------------------------------------- isDateBefore called directly
\* The two dates are drawn at the start; no array is involved.
InitDates ==
    /\ env = [PROD |-> TRUE, showDraftPages |-> FALSE]
    /\ heap = (1 :> <<>>)
    /\ allPosts = 1
    /\ result = 0
    /\ result2 = 0
    /\ error = "none"
    /\ cmp \in [date1 : DateInputs, date2 : DateInputs,
                result : {FALSE}, reverse : {FALSE}, threw : {FALSE}]
    /\ pc = "start"

\* isDateBefore(date1, date2) and isDateBefore(date2, date1).
CallIsDateBefore ==
    /\ pc = "start"
    /\ cmp' = [cmp EXCEPT !.result = isDateBefore(cmp.date1, cmp.date2),
                          !.reverse = isDateBefore(cmp.date2, cmp.date1),
                          !.threw = isDateBeforeThrows(cmp.date1, cmp.date2)]
    /\ error' = IF isDateBeforeThrows(cmp.date1, cmp.date2) THEN "TypeError" ELSE "none"
    /\ pc' = "compared"
    /\ UNCHANGED <<env, heap, allPosts, result, result2>>

NextDates == CallIsDateBefore

SpecDates == InitDates /\ [][NextDates]_vars

\* ================================================================ claims
Input == heap[allPosts]
Output == heap[result]

\* The first call has returned (its result stays in place afterwards).
Returned == pc \in {"done", "again"} \/ (pc = "threw" /\ result # 0)

\* The draft policy as the specification words it: a post passes when it is
\* not a draft, or when drafts are shown outside production.
Passes(post) ==
    \/ post.data.draft # "true"
    \/ (~env.PROD /\ env.showDraftPages)

Count(seq, x) == Cardinality({i \in 1..Len(seq) : seq[i] = x})
Range(seq) == {seq[i] : i \in 1..Len(seq)}
Ms(post) == post.data.pubDate.ms

\* C1: in production mode no post with draft = true is in the output,
\* whatever showDraftPages is.
NoDraftInProduction ==
    (Returned /\ env.PROD) =>
        \A i \in 1..Len(Output) : Output[i].data.draft # "true"

NoDraftInProductionWitness ==
    /\ pc = "done" /\ env.PROD /\ env.showDraftPages
    /\ \E i \in 1..Len(Input) : Input[i].data.draft = "true"
    /\ Len(Output) >= 1 /\ Len(Output) < Len(Input)

\* C2: the output is in descending pubDate order pairwise: no post of the
\* output has an earlier pubDate than a post after it, ties included.
SortedDescending ==
    \A r \in {result, result2} \ {0} :
        \A i, j \in 1..Len(heap[r]) :
            i < j => Ms(heap[r][i]) >= Ms(heap[r][j])

SortedDescendingWitness ==
    /\ pc = "done" /\ Len(Output) = 3 /\ Output # Input
    /\ \E i, j \in 1..3 : i # j /\ Ms(Output[i]) = Ms(Output[j])
    /\ Ms(Output[1]) > Ms(Output[3])
    /\ Ms(Input[1]) < Ms(Input[2])

\* C3: the output is a permutation of the input posts that pass the draft
\* filter: every passing post with its multiplicity, and nothing else.
OutputIsPermutationOfKept ==
    Returned =>
        \A post \in Range(Input) \cup Range(Output) :
            Count(Output, post) = IF Passes(post) THEN Count(Input, post) ELSE 0

OutputIsPermutationOfKeptWitness ==
    /\ pc = "done" /\ Len(Input) = 3 /\ Len(Output) = 2
    /\ Output[1] = Output[2]
    /\ \E i \in 1..3 : ~Passes(Input[i])

\* A witness of C3 where the binary insertion moved a post.
\* (Three kept posts, the third placed between the first two.)
PermutationWithInsertion ==
    /\ pc = "done" /\ Len(Output) = 3
    /\ Output = <<Input[2], Input[3], Input[1]>>
    /\ Input[1] # Input[2] /\ Input[2] # Input[3] /\ Input[1] # Input[3]

\* C4: outside production with showDraftPages false, the call returns the
\* sequence it returns in production mode for the same input.
DevWithoutDraftsEqualsProduction ==
    (Returned /\ ~env.PROD /\ ~env.showDraftPages) =>
        \A flag \in BOOLEAN :
            Output = Selected(Input, [PROD |-> TRUE, showDraftPages |-> flag])

DevWithoutDraftsEqualsProductionWitness ==
    /\ pc = "done" /\ ~env.PROD /\ ~env.showDraftPages
    /\ \E i \in 1..Len(Input) : Input[i].data.draft = "true"
    /\ Len(Output) >= 2 /\ Output # Input

\* C5: outside production with showDraftPages true the filter keeps every
\* post: the output has the length and the set of posts of the input.
ShowDraftsKeepsAll ==
    (Returned /\ ~env.PROD /\ env.showDraftPages) =>
        /\ Len(Output) = Len(Input)
        /\ Range(Output) = Range(Input)

ShowDraftsKeepsAllWitness ==
    /\ pc = "done" /\ ~env.PROD /\ env.showDraftPages
    /\ Len(Input) >= 2
    /\ \E i \in 1..Len(Input) : Input[i].data.draft = "true"
    /\ \E i \in 1..Len(Input) : Input[i].data.draft # "true"

\* C6: idempotence: the selector applied to its own output, under the same
\* environment, returns the same sequence, posts with equal pubDate included.
Idempotent == pc = "again" => heap[result2] = heap[result]

\* C7: a call leaves every array that exists unmodified, the caller's
\* included, and returns a newly allocated array.
InputUnmodified ==
    [][/\ \A r \in DOMAIN heap : r \in DOMAIN heap' /\ heap'[r] = heap[r]
       /\ (result' # result /\ result' # 0) => result' \notin DOMAIN heap
       /\ (result2' # result2 /\ result2' # 0) => result2' \notin DOMAIN heap]_vars

InputUnmodifiedWitness ==
    /\ pc = "again" /\ Len(Input) = 3
    /\ Len(Output) = 2 /\ Output # <<Input[1], Input[2]>>
    /\ heap[result2] # Output

\* C8: when a post that survives the filter has an absent or unparseable
\* pubDate, the call fails with an InvalidRecord error.
InvalidRecordRaised ==
    ( /\ pc \in {"done", "threw"} /\ result2 = 0
      /\ \E i \in 1..Len(Input) :
            Passes(Input[i]) /\ Input[i].data.pubDate.tag # "Date" )
    => error = "InvalidRecord"

\* C9: isDateBefore(date1, date2) is true exactly when date1's timestamp is
\* strictly less than date2's: false for equal instants, never true in both
\* argument orders; and the call changes nothing but its own result.
TimestampLess(date1, date2) ==
    date1.tag = "Date" /\ date2.tag = "Date" /\ date1.ms < date2.ms

IsDateBeforeStrictState ==
    (pc = "compared" /\ ~cmp.threw) =>
        /\ cmp.result <=> TimestampLess(cmp.date1, cmp.date2)
        /\ (cmp.date1.ms = cmp.date2.ms) => ~cmp.result
        /\ ~(cmp.result /\ cmp.reverse)

IsDateBeforeStrict ==
    /\ []IsDateBeforeStrictState
    /\ [][/\ <<env, heap, allPosts, result, result2>>' =
                <<env, heap, allPosts, result, result2>>
          /\ cmp'.date1 = cmp.date1 /\ cmp'.date2 = cmp.date2]_vars

IsDateBeforeStrictWitness ==
    /\ pc = "compared" /\ ~cmp.threw
    /\ cmp.date1.tag = "Date" /\ cmp.date2.tag = "Date"
    /\ cmp.date1.ms = cmp.date2.ms /\ ~cmp.result /\ ~cmp.reverse

\* C10: ties are resolved stably: the kept posts of one pubDate are in the
\* output in the order they have in the input.
StableTies ==
    pc = "done" =>
        \A t \in 1..MaxTime :
            SelectSeq(Output, LAMBDA post : Ms(post) = t)
                = SelectSeq(Input, LAMBDA post : Passes(post) /\ Ms(post) = t)

====
